---- MODULE Spec2Model ----
(***************************************************************************)
(* Model of the Minesweeper rules engine, class Board of components.py.    *)
(*                                                                         *)
(* The state is one Board object: its constructor arguments, its cells     *)
(* (row-major, one CellState each) and its attributes.  One action per     *)
(* public method: reveal, toggle_flag, flagged_count and place_mines.      *)
(* A Python attribute that may not exist on the object is a set: {} while  *)
(* the attribute is absent, {v} once it holds v.  A method's return value  *)
(* is a set too: {} for None, {n} for the integer n.                       *)
(***************************************************************************)
EXTENDS Integers, Sequences, FiniteSets

(* Bounds of the play specification Spec: the boards have at most MaxCols *)
(* columns, MaxRows rows and MaxCells cells.                              *)
MaxCols == 4
MaxRows == 2
MaxCells == 6

(* Bounds of the placement specification SpecPlace. *)
MaxPlaceCols == 4
MaxPlaceRows == 3
MaxPlaceCells == 12

(* Bounds of the statement-level specification SpecSteps. *)
MaxStepCols == 3
MaxStepRows == 2
MaxStepCells == 6

VARIABLES
    cols,            \* Board.cols
    rows,            \* Board.rows
    num_mines,       \* Board.num_mines
    cells,           \* Board.cells: index -> CellState
    mines_placed,    \* attribute mines_placed: {} absent, {TRUE} set
    mines_placed_,   \* attribute _mines_placed of the constructor
    revealed_count,  \* Board.revealed_count
    game_over,       \* Board.game_over
    win,             \* Board.win
    op,              \* the method called last, "init" before any call
    safe,            \* arguments of the last place_mines run: {} if none
    raised,          \* exception the last call ended with, or "none"
    ret,             \* return value of the last call: {} is None
    stack,           \* frames of the reveal calls in progress, innermost last
    passed,          \* calls of the running reveal that went past line 137
    start            \* {} or the board and arguments the running reveal began with

vars == <<cols, rows, num_mines, cells, mines_placed, mines_placed_,
          revealed_count, game_over, win, op, safe, raised, ret,
          stack, passed, start>>

Min(a, b) == IF a < b THEN a ELSE b

Range(s) == {s[i] : i \in 1..Len(s)}

(* CellState.__init__ with its default arguments. *)
CellState == [is_mine |-> FALSE, is_revealed |-> FALSE,
              is_flagged |-> FALSE, adjacent |-> 0]

(* Board.index *)
index(col, row) == row * cols + col

(* Board.is_inbounds *)
is_inbounds(col, row) == 0 <= col /\ col < cols /\ 0 <= row /\ row < rows

deltas == << <<-1, -1>>, <<0, -1>>, <<1, -1>>,
             <<-1,  0>>,            <<1,  0>>,
             <<-1,  1>>, <<0,  1>>, <<1,  1>> >>

(* neighbors with the four orthogonal directions only. *)
neighbors_orthogonal(col, row) ==
    LET cand == << <<col, row - 1>>, <<col - 1, row>>,
                   <<col + 1, row>>, <<col, row + 1>> >>
    IN  SelectSeq(cand, LAMBDA p : is_inbounds(p[1], p[2]))

(* Board.neighbors: the in-bounds neighbours, in the order of deltas. *)
neighbors(col, row) ==
    LET cand == [i \in 1..Len(deltas) |->
                    <<col + deltas[i][1], row + deltas[i][2]>>]
    IN  SelectSeq(cand, LAMBDA p : is_inbounds(p[1], p[2]))

(* The object the methods work on, and the outcome of the running call. *)
self == [cells |-> cells, mines_placed |-> mines_placed,
         revealed_count |-> revealed_count, game_over |-> game_over,
         win |-> win, raised |-> "none"]

(* forbidden without the neighbours of the first click. *)
forbidden_click_only(safe_col, safe_row) == {<<safe_col, safe_row>>}

(* place_mines, step 1: the first click and its neighbours. *)
forbidden(safe_col, safe_row) ==
    {<<safe_col, safe_row>>} \cup Range(neighbors(safe_col, safe_row))

(* place_mines, step 2 *)
all_positions ==
    [i \in 1..(cols * rows) |-> <<(i - 1) % cols, (i - 1) \div cols>>]

pool(safe_col, safe_row) ==
    SelectSeq(all_positions, LAMBDA p : p \notin forbidden(safe_col, safe_row))

(* count without the cap at the size of the pool. *)
count_uncapped(safe_col, safe_row) == num_mines

(* place_mines, step 3 *)
count(safe_col, safe_row) == Min(num_mines, Len(pool(safe_col, safe_row)))

(* random.sample(pool, count) raises ValueError when count is negative   *)
(* or larger than the pool.                                              *)
sample_raises(safe_col, safe_row) ==
    \/ count(safe_col, safe_row) < 0
    \/ count(safe_col, safe_row) > Len(pool(safe_col, safe_row))

(* random.sample(pool, count): every choice of count distinct elements   *)
(* of pool; the order of the sample does not matter to place_mines.      *)
sample(safe_col, safe_row) ==
    LET k == count(safe_col, safe_row)
    IN  {S \in SUBSET Range(pool(safe_col, safe_row)) : Cardinality(S) = k}

(* What a run of place_mines may draw: a sample, or nothing if it raises. *)
draws(safe_col, safe_row) ==
    IF sample_raises(safe_col, safe_row) THEN {{}} ELSE sample(safe_col, safe_row)

(* mine_count that never counts: adjacent stays 0 everywhere. *)
mine_count_none(cs, ns) == 0

(* mine_count without the test of is_mine: it counts the neighbours. *)
mine_count_all(cs, ns) == Len(ns)

(* place_mines, step 4: the inner loop counting the mines around a cell. *)
RECURSIVE mine_count(_, _)
mine_count(cs, ns) ==
    IF ns = <<>> THEN 0
    ELSE (IF cs[index(Head(ns)[1], Head(ns)[2])].is_mine THEN 1 ELSE 0)
         + mine_count(cs, Tail(ns))

(* Board.place_mines, with mine_locs the outcome of random.sample.  The   *)
(* attribute mines_placed is assigned inside the loop over mine_locs, so  *)
(* it is created only when there is at least one mine.                    *)
place_mines(b, safe_col, safe_row, mine_locs) ==
    LET marked == [i \in DOMAIN b.cells |->
                      IF <<i % cols, i \div cols>> \in mine_locs
                      THEN [b.cells[i] EXCEPT !.is_mine = TRUE]
                      ELSE b.cells[i]]
        counted == [i \in DOMAIN b.cells |->
                      IF ~marked[i].is_mine
                      THEN [marked[i] EXCEPT !.adjacent =
                              mine_count(marked, neighbors(i % cols, i \div cols))]
                      ELSE marked[i]]
    IN  IF sample_raises(safe_col, safe_row)
        THEN [b EXCEPT !.raised = "ValueError"]
        ELSE [b EXCEPT !.cells = counted,
                       !.mines_placed = IF mine_locs # {} THEN {TRUE} ELSE @]

(* _reveal_all_mines without the test of is_mine: it reveals every cell. *)
reveal_all_cells(b) ==
    [b EXCEPT !.cells = [i \in DOMAIN b.cells |->
                            [b.cells[i] EXCEPT !.is_revealed = TRUE]]]

(* Board._reveal_all_mines *)
reveal_all_mines(b) ==
    [b EXCEPT !.cells = [i \in DOMAIN b.cells |->
                            IF b.cells[i].is_mine
                            THEN [b.cells[i] EXCEPT !.is_revealed = TRUE]
                            ELSE b.cells[i]]]

(* Board._check_win *)
check_win(b) ==
    LET total_cells == cols * rows
    IN  IF b.revealed_count = total_cells - num_mines /\ ~b.game_over
        THEN [b EXCEPT !.win = TRUE,
                       !.cells = [i \in DOMAIN b.cells |->
                                    IF ~b.cells[i].is_revealed /\ ~b.cells[i].is_mine
                                    THEN [b.cells[i] EXCEPT !.is_revealed = TRUE]
                                    ELSE b.cells[i]]]
        ELSE b

(* Board.reveal.  rnd[p] is what random.sample returns if this call, or   *)
(* one it makes recursively, reaches place_mines with p as the safe cell. *)
(* Reading the attribute mines_placed while it is absent raises           *)
(* AttributeError, which ends the call and every call around it.          *)
RECURSIVE reveal(_, _, _, _)
RECURSIVE reveal_each(_, _, _)
reveal(b, col, row, rnd) ==
    IF b.raised # "none" THEN b
    ELSE IF ~is_inbounds(col, row) THEN b
    ELSE IF b.mines_placed = {} THEN [b EXCEPT !.raised = "AttributeError"]
    ELSE
      LET b1 == IF FALSE \in b.mines_placed
                THEN place_mines(b, col, row, rnd[<<col, row>>])
                ELSE b
          idx == index(col, row)
      IN  IF b1.raised # "none" THEN b1
          ELSE IF b1.cells[idx].is_revealed \/ b1.cells[idx].is_flagged THEN b1
          ELSE
            LET b2 == [b1 EXCEPT !.cells[idx].is_revealed = TRUE]
            IN  IF b2.cells[idx].is_mine
                THEN reveal_all_mines([b2 EXCEPT !.game_over = TRUE])
                ELSE
                  LET b3 == IF b2.cells[idx].adjacent = 0
                            THEN reveal_each(b2, neighbors(col, row), rnd)
                            ELSE b2
                  IN  IF b3.raised # "none" THEN b3 ELSE check_win(b3)

(* The loop of reveal over the neighbours, in order. *)
reveal_each(b, ns, rnd) ==
    IF ns = <<>> THEN b
    ELSE reveal_each(reveal(b, Head(ns)[1], Head(ns)[2], rnd), Tail(ns), rnd)

(* toggle_flag that sets the flag instead of flipping it. *)
toggle_flag_set(b, col, row) ==
    IF ~is_inbounds(col, row) THEN b
    ELSE IF b.cells[index(col, row)].is_revealed THEN b
    ELSE [b EXCEPT !.cells[index(col, row)].is_flagged = TRUE]

(* toggle_flag without the test of is_revealed. *)
toggle_flag_revealed_too(b, col, row) ==
    IF ~is_inbounds(col, row) THEN b
    ELSE [b EXCEPT !.cells[index(col, row)].is_flagged = ~@]

(* toggle_flag without the test of is_inbounds: a Python list takes the   *)
(* indices -len..len-1 and raises IndexError on the others.               *)
toggle_flag_unguarded(b, col, row) ==
    LET n == cols * rows
        i == index(col, row)
    IN  IF i < -n \/ i >= n THEN [b EXCEPT !.raised = "IndexError"]
        ELSE IF b.cells[i % n].is_revealed THEN b
        ELSE [b EXCEPT !.cells[i % n].is_flagged = ~@]

(* Board.toggle_flag *)
toggle_flag(b, col, row) ==
    IF ~is_inbounds(col, row) THEN b
    ELSE IF b.cells[index(col, row)].is_revealed THEN b
    ELSE [b EXCEPT !.cells[index(col, row)].is_flagged = ~@]

(* Board.flagged_count: the body is "pass", the call returns None. *)
flagged_count(b) == {}

(* Board.__init__ *)
Board(c, r, mines) ==
    /\ cols = c
    /\ rows = r
    /\ num_mines = mines
    /\ cells = [i \in 0..(c * r - 1) |-> CellState]
    /\ mines_placed = {}
    /\ mines_placed_ = FALSE
    /\ revealed_count = 0
    /\ game_over = FALSE
    /\ win = FALSE

Init ==
    /\ \E c \in 1..MaxCols, r \in 1..MaxRows :
          /\ c * r <= MaxCells
          /\ \E mines \in 0..(c * r) : Board(c, r, mines)
    /\ op = "init"
    /\ safe = {}
    /\ raised = "none"
    /\ ret = {}
    /\ stack = <<>>
    /\ passed = 0
    /\ start = {}

(* Coordinates a caller passes: every cell and one step outside each side. *)
Cols == -1..cols
Rows == -1..rows

(* The state after a method ran on the object and left it as b. *)
Becomes(b) ==
    /\ cells' = b.cells
    /\ mines_placed' = b.mines_placed
    /\ revealed_count' = b.revealed_count
    /\ game_over' = b.game_over
    /\ win' = b.win
    /\ raised' = b.raised
    /\ UNCHANGED <<cols, rows, num_mines, mines_placed_>>

(* What random.sample may return inside reveal, per safe cell.  reveal   *)
(* reaches place_mines only if the attribute mines_placed holds False.   *)
Oracles ==
    IF FALSE \in mines_placed
    THEN {rnd \in [Range(all_positions) -> SUBSET Range(all_positions)] :
             \A p \in DOMAIN rnd : rnd[p] \in draws(p[1], p[2])}
    ELSE {[p \in Range(all_positions) |-> {}]}

(* Methods are called one at a time: a call begins when no reveal is in  *)
(* progress, and a call modelled as one step leaves no frame behind.     *)
Idle ==
    /\ stack = <<>>
    /\ stack' = <<>>
    /\ passed' = 0
    /\ start' = {}

RevealCall(col, row) ==
    /\ Idle
    /\ \E rnd \in Oracles : Becomes(reveal(self, col, row, rnd))
    /\ op' = "reveal"
    /\ safe' = IF FALSE \in mines_placed /\ is_inbounds(col, row)
               THEN {<<col, row>>} ELSE safe
    /\ ret' = {}

ToggleFlagCall(col, row) ==
    /\ Idle
    /\ Becomes(toggle_flag(self, col, row))
    /\ op' = "toggle_flag"
    /\ UNCHANGED safe
    /\ ret' = {}

FlaggedCountCall ==
    /\ Idle
    /\ Becomes(self)
    /\ op' = "flagged_count"
    /\ UNCHANGED safe
    /\ ret' = flagged_count(self)

(* A direct call of the public method place_mines, as a test or a set-up  *)
(* makes it: with an in-bounds cell, on a board that has no mine yet.     *)
(* Neither condition is in the code; they are the callers' discipline     *)
(* (place_mines is meant to run once per board, around the first click).  *)
PlaceMinesCall(safe_col, safe_row) ==
    /\ Idle
    /\ \A i \in DOMAIN cells : ~cells[i].is_mine
    /\ is_inbounds(safe_col, safe_row)
    /\ \E mine_locs \in draws(safe_col, safe_row) :
          Becomes(place_mines(self, safe_col, safe_row, mine_locs))
    /\ op' = "place_mines"
    /\ safe' = {<<safe_col, safe_row>>}
    /\ ret' = {}

Next ==
    \/ \E col \in Cols, row \in Rows : RevealCall(col, row)
    \/ \E col \in Cols, row \in Rows : ToggleFlagCall(col, row)
    \/ FlaggedCountCall
    \/ \E col \in Cols, row \in Rows : PlaceMinesCall(col, row)

Spec == Init /\ [][Next]_vars

(* The placement specification: place_mines applied to fresh boards. *)
InitPlace ==
    /\ \E c \in 1..MaxPlaceCols, r \in 1..MaxPlaceRows :
          /\ c * r <= MaxPlaceCells
          /\ \E mines \in 0..(c * r) : Board(c, r, mines)
    /\ op = "init"
    /\ safe = {}
    /\ raised = "none"
    /\ ret = {}
    /\ stack = <<>>
    /\ passed = 0
    /\ start = {}

NextPlace == \E col \in Cols, row \in Rows : PlaceMinesCall(col, row)

SpecPlace == InitPlace /\ [][NextPlace]_vars

(***************************************************************************)
(* The statement-level specification: reveal run one call frame at a time. *)
(* A frame is the pair of arguments of a reveal call and its position i:   *)
(* 0 at the first statement, k >= 1 when the loop of line 151 is about to  *)
(* take its k-th neighbour.                                                *)
(***************************************************************************)
InitSteps ==
    /\ \E c \in 1..MaxStepCols, r \in 1..MaxStepRows :
          /\ c * r <= MaxStepCells
          /\ \E mines \in 0..(c * r) : Board(c, r, mines)
    /\ op = "init"
    /\ safe = {}
    /\ raised = "none"
    /\ ret = {}
    /\ stack = <<>>
    /\ passed = 0
    /\ start = {}

Frame(col, row, i) == [col |-> col, row |-> row, i |-> i]

(* Line 137 without its test of is_revealed. *)
ignored_flag_only(b, idx) == b.cells[idx].is_flagged

(* The guard of line 137. *)
ignored(b, idx) == b.cells[idx].is_revealed \/ b.cells[idx].is_flagged

(* The cells a caller names in this specification: every cell            *)
(* of the board, one pair left of it and one pair beyond its last corner *)
(* (line 126 treats all pairs outside the board alike).                  *)
Targets == Range(all_positions) \cup {<<-1, 0>>, <<cols, rows>>}

(* The caller issues reveal(col, row). *)
RevealEnter(col, row) ==
    /\ stack = <<>>
    /\ stack' = <<Frame(col, row, 0)>>
    /\ passed' = 0
    /\ start' = {[b |-> self, col |-> col, row |-> row]}
    /\ op' = "reveal"
    /\ raised' = "none"
    /\ ret' = {}
    /\ UNCHANGED <<cols, rows, num_mines, cells, mines_placed, mines_placed_,
                   revealed_count, game_over, win, safe>>

(* The innermost call returns, leaving the board as b, after it went    *)
(* past line 137 n times in this step.                                  *)
Return(b, n) ==
    /\ Becomes(b)
    /\ stack' = SubSeq(stack, 1, Len(stack) - 1)
    /\ passed' = passed + n
    /\ start' = IF Len(stack) = 1 THEN {} ELSE start
    /\ UNCHANGED safe

(* An exception leaves the innermost call and every caller of it. *)
Raise(b) ==
    /\ Becomes(b)
    /\ stack' = <<>>
    /\ start' = {}
    /\ UNCHANGED <<passed, safe>>

(* The innermost call goes on to position i of its body, the board being *)
(* b, after it went past line 137 n times and made the calls of the      *)
(* frames in called.                                                     *)
Goto(b, i, called, n) ==
    /\ Becomes(b)
    /\ passed' = passed + n
    /\ stack' = SubSeq(stack, 1, Len(stack) - 1)
                   \o <<[stack[Len(stack)] EXCEPT !.i = i]>> \o called
    /\ UNCHANGED <<start, safe>>

(* Board.reveal, one step of the innermost call: lines 126-150 and 155   *)
(* from position 0, one turn of the loop of lines 151-152 otherwise.     *)
RevealStep ==
    /\ stack # <<>>
    /\ UNCHANGED <<op, ret>>
    /\ LET f == stack[Len(stack)]
           idx == index(f.col, f.row)
           ns == neighbors(f.col, f.row)
       IN  IF f.i = 0
           THEN IF ~is_inbounds(f.col, f.row)
                THEN Return(self, 0)
                ELSE IF mines_placed = {}
                THEN Raise([self EXCEPT !.raised = "AttributeError"])
                ELSE \E rnd \in Oracles :
                       LET b1 == IF FALSE \in mines_placed
                                 THEN place_mines(self, f.col, f.row,
                                                  rnd[<<f.col, f.row>>])
                                 ELSE self
                           b2 == [b1 EXCEPT !.cells[idx].is_revealed = TRUE]
                       IN  IF b1.raised # "none"
                           THEN Raise(b1)
                           ELSE IF ignored(b1, idx)
                           THEN Return(b1, 0)
                           ELSE IF b2.cells[idx].is_mine
                           THEN Return(reveal_all_mines(
                                           [b2 EXCEPT !.game_over = TRUE]), 1)
                           ELSE IF b2.cells[idx].adjacent = 0
                           THEN Goto(b2, 1, <<>>, 1)
                           ELSE Return(check_win(b2), 1)
           ELSE IF f.i <= Len(ns)
                THEN Goto(self, f.i + 1,
                          <<Frame(ns[f.i][1], ns[f.i][2], 0)>>, 0)
                ELSE Return(check_win(self), 0)

NextSteps ==
    \/ \E t \in Targets : RevealEnter(t[1], t[2])
    \/ RevealStep
    \/ \E t \in Targets : ToggleFlagCall(t[1], t[2])
    \/ \E t \in Targets : PlaceMinesCall(t[1], t[2])

(* A call in progress keeps executing: the interpreter runs the innermost *)
(* frame's next statement.                                                *)
SpecSteps == InitSteps /\ [][NextSteps]_vars /\ WF_vars(RevealStep)

(***************************************************************************)
(* Vocabulary of the properties.                                           *)
(***************************************************************************)
Positions == {<<c, r>> : c \in 0..(cols - 1), r \in 0..(rows - 1)}

CellAt(p) == cells[p[2] * cols + p[1]]

Abs(n) == IF n < 0 THEN -n ELSE n

(* p and every position at Chebyshev distance 1 of it. *)
Zone(p) == {q \in Positions : Abs(q[1] - p[1]) <= 1 /\ Abs(q[2] - p[2]) <= 1}

Mines == {p \in Positions : CellAt(p).is_mine}

Revealed == {p \in Positions : CellAt(p).is_revealed}

Flagged == {p \in Positions : CellAt(p).is_flagged}

(***************************************************************************)
(* C1: no call of reveal, toggle_flag or flagged_count on a board built by *)
(* Board(cols, rows, mines) ends with an exception.                        *)
(***************************************************************************)
C1_NoException == raised = "none"

(***************************************************************************)
(* C2: an in-bounds reveal on a board whose mines are not placed yet runs  *)
(* place_mines and leaves mines_placed true (so that no later reveal       *)
(* places mines again).                                                    *)
(***************************************************************************)
C2_FirstRevealPlacesMines ==
    [][\A col \in Cols, row \in Rows :
          (is_inbounds(col, row) /\ TRUE \notin mines_placed
              /\ RevealCall(col, row))
          => (TRUE \in mines_placed' /\ safe' = {<<col, row>>})]_vars

(***************************************************************************)
(* C3: first-click safety.  When place_mines(safe_col, safe_row) runs on a *)
(* board with no mines, the safe cell and all its in-bounds neighbours are *)
(* not mines afterwards, whatever sample is drawn.                         *)
(***************************************************************************)
C3_FirstClickSafety ==
    [][(op' = "place_mines" /\ Mines = {})
          => \A s \in safe' : Zone(s) \cap Mines' = {}]_vars

(* place_mines ran on a fresh board around an interior cell and put mines. *)
C3_Witness ==
    /\ op = "place_mines"
    /\ Mines # {}
    /\ \E s \in safe : Cardinality(Zone(s)) = 9 /\ Zone(s) \cap Mines = {}

(***************************************************************************)
(* C4: when place_mines(safe_col, safe_row) runs on a board with no mines, *)
(* it does not fail, and afterwards the number of mine cells is            *)
(* min(num_mines, cols*rows - |forbidden zone|), the zone being the safe   *)
(* cell and its in-bounds neighbours (4, 6 or 9 cells on a board of at     *)
(* least 2 by 2).                                                          *)
(***************************************************************************)
C4_MineCount ==
    [][(op' = "place_mines" /\ Mines = {})
          => /\ raised' = "none"
             /\ \A s \in safe' :
                   Cardinality(Mines') =
                       Min(num_mines, cols * rows - Cardinality(Zone(s)))]_vars

(* place_mines was asked for more mines than there are candidates. *)
C4_Witness ==
    /\ op = "place_mines"
    /\ raised = "none"
    /\ Mines # {}
    /\ Cardinality(Mines) < num_mines
    /\ \E s \in safe : Cardinality(Mines) = cols * rows - Cardinality(Zone(s))

(***************************************************************************)
(* C5: once mines are placed, in every state, adjacent of every non-mine   *)
(* cell is the number of its in-bounds neighbours that are mines, a number *)
(* in 0..8.                                                                *)
(***************************************************************************)
C5_Adjacency ==
    safe # {} =>
        \A p \in Positions \ Mines :
            /\ CellAt(p).adjacent = Cardinality((Zone(p) \ {p}) \cap Mines)
            /\ CellAt(p).adjacent \in 0..8

(* Play went on after the placement and a safe cell touches two mines. *)
C5_Witness ==
    /\ op = "reveal"
    /\ raised = "none"
    /\ \E p \in Positions \ Mines :
          /\ CellAt(p).adjacent = 2
          /\ CellAt(p).is_revealed

(***************************************************************************)
(* C6: in every reachable state revealed_count is the number of cells      *)
(* whose is_revealed is true.                                              *)
(***************************************************************************)
C6_RevealedCount == revealed_count = Cardinality(Revealed)

(***************************************************************************)
(* C7: win detection.  A reveal call made while game_over is false that    *)
(* reveals the last unrevealed non-mine cell returns with win true (and    *)
(* every non-mine cell revealed).                                          *)
(***************************************************************************)
C7_WinDetection ==
    [][(/\ op' = "reveal"
        /\ ~game_over
        /\ ~((Positions \ Mines) \subseteq Revealed)
        /\ (Positions \ Mines') \subseteq Revealed')
          => win']_vars

(***************************************************************************)
(* C8: loss.  A reveal of an unrevealed, unflagged mine cell returns with  *)
(* game_over true and every mine revealed; it leaves win as it was and     *)
(* changes is_revealed of no non-mine cell.                                *)
(***************************************************************************)
C8_Loss ==
    [][\A col \in Cols, row \in Rows :
          (/\ op' = "reveal"
           /\ is_inbounds(col, row)
           /\ TRUE \in mines_placed
           /\ cells[index(col, row)].is_mine
           /\ ~cells[index(col, row)].is_revealed
           /\ ~cells[index(col, row)].is_flagged
           /\ RevealCall(col, row))
          => (/\ raised' = "none"
              /\ game_over'
              /\ Mines' \subseteq Revealed'
              /\ win' = win
              /\ Revealed' \ Mines' = Revealed \ Mines)]_vars

(* A mine was stepped on: the game is lost, the two or more mines are all *)
(* revealed, and of the safe cells some are revealed and some are not.    *)
C8_Witness ==
    /\ op = "reveal"
    /\ game_over
    /\ ~win
    /\ Cardinality(Mines) >= 2
    /\ Mines \subseteq Revealed
    /\ Revealed \ Mines # {}
    /\ (Positions \ Mines) \ Revealed # {}

(***************************************************************************)
(* C9: game_over and win are never both true.                              *)
(***************************************************************************)
C9_Exclusive == ~(game_over /\ win)

(***************************************************************************)
(* C10: LOST and WON are terminal.  Once game_over is true it stays true   *)
(* and win does not become true; once win is true it stays true and        *)
(* game_over does not become true.                                         *)
(***************************************************************************)
C10_Terminal ==
    [][/\ game_over => (game_over' /\ (win' => win))
       /\ win => (win' /\ (game_over' => game_over))]_vars

(* The board is left as it was: every cell and every attribute. *)
BoardUnchanged ==
    UNCHANGED <<cols, rows, num_mines, cells, mines_placed, mines_placed_,
                revealed_count, game_over, win>>

(***************************************************************************)
(* C11: reveal on an in-bounds cell that is flagged or already revealed is *)
(* a no-op: the call returns and the whole board state is as before it,    *)
(* in every board state, a fresh board with a flagged cell included.       *)
(***************************************************************************)
C11_RevealNoOp ==
    [][\A col \in Cols, row \in Rows :
          (/\ op' = "reveal"
           /\ is_inbounds(col, row)
           /\ \/ cells[index(col, row)].is_revealed
              \/ cells[index(col, row)].is_flagged
           /\ RevealCall(col, row))
          => (raised' = "none" /\ BoardUnchanged)]_vars

(***************************************************************************)
(* C12: flood fill.                                                        *)
(***************************************************************************)
ZeroCell(p) == ~CellAt(p).is_mine /\ CellAt(p).adjacent = 0

(* The 8-connected region of zero-adjacency cells that contains S. *)
RECURSIVE Region(_)
Region(S) ==
    LET T == S \cup {q \in Positions :
                        ZeroCell(q) /\ \E p \in S : q \in Zone(p)}
    IN  IF T = S THEN S ELSE Region(T)

(* The cells around R that are not in R. *)
Border(R) == {q \in Positions \ R : \E p \in R : q \in Zone(p)}

(* The cells reached from S by steps from a zero-adjacency cell to a      *)
(* neighbour that is neither revealed nor flagged.                        *)
RECURSIVE Reach(_)
Reach(S) ==
    LET T == S \cup {q \in Positions :
                        /\ ~CellAt(q).is_revealed
                        /\ ~CellAt(q).is_flagged
                        /\ \E p \in S : ZeroCell(p) /\ q \in Zone(p)}
    IN  IF T = S THEN S ELSE Reach(T)

(* reveal(col, row) runs on an unrevealed, unflagged zero-adjacency cell. *)
FloodCall(col, row) ==
    /\ op' = "reveal"
    /\ is_inbounds(col, row)
    /\ TRUE \in mines_placed
    /\ ZeroCell(<<col, row>>)
    /\ ~cells[index(col, row)].is_revealed
    /\ ~cells[index(col, row)].is_flagged
    /\ RevealCall(col, row)

(* C12 as claimed: whatever the flags, the call reveals exactly the       *)
(* not-yet-revealed cells of the zero-adjacency region of the target and  *)
(* of the one-cell border around it.                                      *)
C12_FloodExact ==
    [][\A col \in Cols, row \in Rows :
          FloodCall(col, row) =>
            LET R == Region({<<col, row>>})
            IN  Revealed' \ Revealed = (R \cup Border(R)) \ Revealed]_vars

(* C12 amended: the call reveals exactly the cells reached from the       *)
(* target through zero-adjacency cells that are neither revealed nor      *)
(* flagged, the border cells reached that way included; a flagged cell is *)
(* neither revealed nor passed through.  If the call returns with win     *)
(* true, the sweep of _check_win has revealed every non-mine cell.        *)
C12_FloodReach ==
    [][\A col \in Cols, row \in Rows :
          FloodCall(col, row) =>
            Revealed' \ Revealed =
                IF win' THEN (Positions \ Mines) \ Revealed
                        ELSE Reach({<<col, row>>})]_vars

(* A flood fill went around a flag: a revealed zero-adjacency cell has a  *)
(* zero-adjacency neighbour that is flagged and still hidden, while the   *)
(* fill revealed border cells next to it.                                 *)
C12_Witness ==
    /\ op = "reveal"
    /\ ~win
    /\ ~game_over
    /\ \E p \in Revealed, q \in Flagged \ Revealed :
          /\ ZeroCell(p) /\ ZeroCell(q) /\ q \in Zone(p)
          /\ \E n \in (Zone(p) \cap Revealed) \ {p} : ~ZeroCell(n)

(***************************************************************************)
(* C13: flagged_count() returns the number of cells whose is_flagged is    *)
(* true, in every reachable state, and changes no board state.             *)
(***************************************************************************)
C13_FlaggedCount ==
    [][op' = "flagged_count"
          => (ret' = {Cardinality(Flagged)} /\ BoardUnchanged)]_vars

(***************************************************************************)
(* C14: toggle_flag is an involution on unrevealed cells.  In every        *)
(* reachable state and for every in-bounds unrevealed cell, one call flips *)
(* the flag of the cell and a second call on the same cell gives back the  *)
(* state before the two calls.                                             *)
(***************************************************************************)
C14_ToggleTwice ==
    \A col \in Cols, row \in Rows :
        (is_inbounds(col, row) /\ ~cells[index(col, row)].is_revealed) =>
            LET once  == toggle_flag(self, col, row)
                twice == toggle_flag(once, col, row)
            IN  /\ once.cells[index(col, row)].is_flagged
                      = ~cells[index(col, row)].is_flagged
                /\ twice = self

(* A toggle_flag call took the last flag off again, in the middle of a    *)
(* game: some cells are revealed, some are hidden.                        *)
C14_Witness ==
    /\ op = "toggle_flag"
    /\ TRUE \in mines_placed
    /\ Flagged = {}
    /\ Revealed # {}
    /\ Positions \ Revealed # {}

(***************************************************************************)
(* C15: toggle_flag on a revealed cell changes neither is_flagged of that  *)
(* cell nor anything else of the board.                                    *)
(***************************************************************************)
C15_ToggleRevealed ==
    [][\A col \in Cols, row \in Rows :
          (/\ op' = "toggle_flag"
           /\ is_inbounds(col, row)
           /\ cells[index(col, row)].is_revealed
           /\ ToggleFlagCall(col, row))
          => (raised' = "none" /\ BoardUnchanged)]_vars

(* toggle_flag returned on a lost board where every cell is revealed, one *)
(* of them a mine that the sweep revealed with its flag on.               *)
C15_Witness ==
    /\ op = "toggle_flag"
    /\ game_over
    /\ Positions \subseteq Revealed
    /\ Flagged \cap Mines # {}
    /\ Revealed \ Mines # {}

(***************************************************************************)
(* C16: out-of-bounds coordinates are silent no-ops.  reveal and           *)
(* toggle_flag with a column or a row outside the board return without an  *)
(* exception and leave the whole board state unchanged; on a fresh board   *)
(* the reveal places no mines and does not set mines_placed.  (self is the *)
(* board with no exception raised: the outcome of a call that returns      *)
(* leaving everything as it was.)                                          *)
(***************************************************************************)
C16_OutOfBounds ==
    \A col \in Cols, row \in Rows :
        ~is_inbounds(col, row) =>
            /\ \A rnd \in Oracles : reveal(self, col, row, rnd) = self
            /\ toggle_flag(self, col, row) = self

(* A reveal returned without an exception on a board that never had its   *)
(* mines placed: there every in-bounds reveal raises.                     *)
C16_Witness ==
    /\ op = "reveal"
    /\ raised = "none"
    /\ mines_placed = {}
    /\ safe = {}
    /\ Flagged # {}

(***************************************************************************)
(* C18 as claimed: in no reachable state is a cell both flagged and        *)
(* revealed.                                                               *)
(***************************************************************************)
C18_NeverFlaggedAndRevealed == Flagged \cap Revealed = {}

(* C18 amended: while the game is neither lost nor won, no cell is both   *)
(* flagged and revealed; reveal never reveals a flagged cell, directly or *)
(* by the flood fill.  Only the sweeps of _reveal_all_mines (on loss) and *)
(* _check_win (on win) reveal cells that carry a flag.                    *)
C18_FlaggedHiddenInPlay ==
    (~game_over /\ ~win) => Flagged \cap Revealed = {}

(* A game in progress with revealed cells and flags on hidden cells, a    *)
(* flagged safe cell next to a revealed zero-adjacency cell among them.   *)
C18_Witness ==
    /\ ~game_over
    /\ ~win
    /\ op = "reveal"
    /\ Flagged \cap Mines # {}
    /\ \E p \in Revealed, q \in Flagged \ Mines : ZeroCell(p) /\ q \in Zone(p)

(***************************************************************************)
(* C19: a reveal call whose target is not a mine never sets game_over and  *)
(* never changes is_revealed of a mine cell, whatever the mine layout and  *)
(* the flags; so the first reveal on a fresh board never loses the game.   *)
(* Stated of the outcome of reveal in every reachable state.               *)
(***************************************************************************)
C19_CascadeSafe ==
    \A col \in Cols, row \in Rows :
        (is_inbounds(col, row) /\ ~cells[index(col, row)].is_mine) =>
            \A rnd \in Oracles :
                LET after == reveal(self, col, row, rnd)
                IN  /\ after.game_over = game_over
                    /\ \A p \in Mines :
                          after.cells[index(p[1], p[2])].is_revealed
                              = CellAt(p).is_revealed

(* A flood fill ran next to mines: three or more safe cells are revealed, *)
(* a zero-adjacency cell among them, no mine is, and the game is not lost.*)
C19_Witness ==
    /\ op = "reveal"
    /\ raised = "none"
    /\ ~game_over
    /\ Mines # {}
    /\ Revealed \cap Mines = {}
    /\ Cardinality(Revealed) >= 3
    /\ \E p \in Revealed : ZeroCell(p)

(***************************************************************************)
(* C17.  Every reveal call terminates: a call in progress comes to its     *)
(* end, no step turns a revealed cell back to hidden, and the calls of     *)
(* one reveal that go past the guard of line 137 number at most cols*rows. *)
(***************************************************************************)
C17_Terminates ==
    /\ (stack # <<>>) ~> (stack = <<>>)
    /\ [](passed <= cols * rows)
    /\ [][Revealed \subseteq Revealed']_vars

(* A flood fill that went past the guard in four nested or successive   *)
(* calls has returned to its caller.                                    *)
C17_Witness ==
    /\ stack = <<>>
    /\ op = "reveal"
    /\ raised = "none"
    /\ passed >= 4
    /\ ~game_over

(* The call run frame by frame ends in the board that reveal computes. *)
StepsAgree ==
    [][(stack # <<>> /\ stack' = <<>>) =>
          \E s \in start : \E rnd \in Oracles :
              LET after == reveal(s.b, s.col, s.row, rnd)
              IN  /\ cells' = after.cells
                  /\ mines_placed' = after.mines_placed
                  /\ revealed_count' = after.revealed_count
                  /\ game_over' = after.game_over
                  /\ win' = after.win
                  /\ raised' = after.raised]_vars

====
